---- MODULE Spec2Model ----
(***************************************************************************)
(* Turn orchestrator of the AEP agent (backend/src/agent/agent.service.js) *)
(* as a state machine.  JavaScript runs each handler to its next await, so *)
(* one action is the code between two suspension points: the entry of      *)
(* processMessage up to its first await, and the continuation after each   *)
(* awaited collaborator (language model, tool executor) returns or throws. *)
(* The POST /queries route of the backend router, which submits a query    *)
(* job and polls it, is modelled the same way over variables of its own,  *)
(* and so are a second caller's turn, which shares chatHistory with the   *)
(* first, and the chat panel of the frontend (AgentPanel.jsx).            *)
(***************************************************************************)
EXTENDS Integers, Sequences, FiniteSets, TLC

VARIABLES
    chatHistory,      \* module-level `let chatHistory` (agent.service.js:10)
    llmConfigured,    \* what llm.isConfigured() answers in this process
    message,          \* processMessage argument
    autoMode,         \* processMessage argument
    history,          \* processMessage argument
    approvedAction,   \* processMessage argument
    pc,               \* suspension point of the turn
    messages,         \* context array built for the intent call
    toolCalls,        \* llm.parseToolCalls(response)
    results,          \* handleToolCalls / summarizeResultsWithLLM `results`
    toolsUsed,        \* handleToolCalls / summarizeResultsWithLLM `toolsUsed`
    requiresApproval, \* handleToolCalls local flag
    pendingTool,      \* handleToolCalls local
    originalMessage,  \* summarizeResultsWithLLM argument
    response,         \* value the turn's promise settled with
    executed,         \* calls handed to toolRegistry.executeTool in this turn
    outcomes,         \* how those calls settled, in the order they settled
    llmLog,           \* calls handed to llm.chatCompletion in this turn
    pendingAction,    \* the caller's pending action (AgentPanel.jsx:66)
    body,             \* req.body of POST /queries
    qpc,              \* suspension point of the POST /queries handler
    queryResult,      \* `let result` of the handler: the job last fetched
    startTime,        \* `const startTime` of the handler
    now,              \* what Date.now() answers, in ms since the request came
    reply,            \* what the handler sent with res.json
    sent,             \* how many responses the handler wrote for the request
    queryLog,         \* createQuery, timer and getQueryDetails calls of the request
    message2,         \* message of a second caller's turn
    history2,         \* history of the second caller's turn
    messages2,        \* `const messages` of the second caller's turn
    pc2,              \* where the second caller's turn stands
    panelMessages,    \* `messages` state of the chat panel, by kind of message
    input,            \* `input` state of the chat panel, trimmed
    loading,          \* `loading` state of the chat panel
    panelAutoMode,    \* `autoMode` state of the chat panel
    panelPending,     \* `pendingAction` state of the chat panel
    showAlerts,       \* `showAlerts` state of the chat panel
    inflight,         \* requests of the panel the server has not answered yet
    sentLog           \* every payload the panel handed to sendAgentMessage

\* the variables of the agent's turn
agent == <<chatHistory, llmConfigured, message, autoMode, history,
           approvedAction, pc, messages, toolCalls, results, toolsUsed,
           requiresApproval, pendingTool, originalMessage, response,
           executed, outcomes, llmLog, pendingAction>>

\* the variables of the POST /queries handler
poller == <<body, qpc, queryResult, startTime, now, reply, sent, queryLog>>

\* the variables of a second caller's turn
second == <<message2, history2, messages2, pc2>>

\* the variables of the chat panel
panel == <<panelMessages, input, loading, panelAutoMode, panelPending,
           showAlerts, inflight, sentLog>>

vars == <<agent, poller, second, panel>>

----------------------------------------------------------------------------
(* Bounds of the model *)

MaxCalls == 3
MaxHistLen == 21

(* Program constants *)

HistLimit == 20

----------------------------------------------------------------------------
(* JavaScript values *)

\* every JavaScript value is a record here, so that any two can be compared
Null == [null |-> TRUE]
Undefined == [undefined |-> TRUE]
NoResponse == [unsettled |-> TRUE]
NoCall == Null
NoAction == Null

Max(a, b) == IF a >= b THEN a ELSE b

\* Array.prototype.slice(-n): the elements from index max(len - n, 0) on
SliceLastWrong(s, n) == SubSeq(s, 1, IF Len(s) < n THEN Len(s) ELSE n)
SliceLast(s, n) == SubSeq(s, Max(Len(s) - n, 0) + 1, Len(s))

----------------------------------------------------------------------------
(* Collaborators: tool registry (tools/index.js) and tool executors *)

\* the tools bound by the rule matcher, and three that getActionDescription
\* describes for the approval prompt
ReadTools == {"get_failed_batches", "get_batch_stats", "get_schema_stats",
              "list_datasets", "get_segment_stats", "list_sandboxes",
              "list_namespaces"}
ApprovalTools == {"execute_sql_query", "generate_pql_from_description",
                  "generate_sql_from_intent"}
ToolNames == ReadTools \cup ApprovalTools

\* toolRegistry.requiresApproval(name): the registry's static flag
RequiresApproval(name) == name \in ApprovalTools

\* what the executor bound to a tool can return, and the message of what it
\* can throw
ToolData(name) ==
    CASE name = "get_failed_batches" -> {[batches |-> <<>>]}
      [] name = "execute_sql_query" -> {[id |-> "q1", state |-> "SUCCESS"]}
      [] OTHER -> {[total |-> 2]}
ToolErrors == {"tool_error"}

\* the calls the language model chooses from in this model
Calls ==
    { [name |-> "get_failed_batches", arguments |-> [limit |-> 10]],
      [name |-> "list_datasets", arguments |-> [limit |-> 5]],
      [name |-> "execute_sql_query", arguments |-> [sql |-> "q1"]],
      [name |-> "execute_sql_query", arguments |-> [sql |-> "q2"]] }

\* non-empty call lists llm.parseToolCalls can return
RECURSIVE SeqsUpTo(_, _)
SeqsUpTo(S, n) ==
    IF n = 0 THEN {<<>>}
    ELSE LET shorter == SeqsUpTo(S, n - 1)
         IN  shorter \cup {Append(s, x) : s \in {t \in shorter : Len(t) = n - 1}, x \in S}
CallLists == SeqsUpTo(Calls, MaxCalls) \ {<<>>}

----------------------------------------------------------------------------
(* Caller inputs *)

\* a ChatMessage; entry i of a history is told apart by its content
ChatMessage(i) ==
    [role |-> IF i % 2 = 1 THEN "user" ELSE "assistant", content |-> i, timestamp |-> i]
HistoryOfLen(n) == [i \in 1..n |-> ChatMessage(i)]
HistLens == {2, MaxHistLen}
Histories == {HistoryOfLen(n) : n \in HistLens}

\* A message text is represented by the set of rule patterns (by position in
\* handleWithRules' list) whose regular expression tests true on it.
Messages == {{}, {1, 4}}

----------------------------------------------------------------------------
(* Pure functions of agent.service.js *)

\* the condition of the `if` at agent.service.js:146
NeedsApprovalNever(name, auto) == FALSE
NeedsApprovalNoAuto(name, auto) == RequiresApproval(name)
NeedsApprovalOr(name, auto) == RequiresApproval(name) \/ ~auto
NeedsApproval(name, auto) == RequiresApproval(name) /\ ~auto

\* getActionDescription(toolName, args); an absent field prints as undefined
Field(obj, f) == IF f \in DOMAIN obj THEN [value |-> obj[f]] ELSE Undefined
GetActionDescription(toolName, args) ==
    CASE toolName = "execute_sql_query" ->
            [text |-> "Execute SQL query", arg |-> Field(args, "sql")]
      [] toolName = "generate_pql_from_description" ->
            [text |-> "Generate PQL segment expression for", arg |-> Field(args, "description")]
      [] toolName = "generate_sql_from_intent" ->
            [text |-> "Generate SQL query for", arg |-> Field(args, "intent")]
      [] OTHER -> [text |-> "Execute", arg |-> [value |-> toolName]]

\* the object literal returned at agent.service.js:162-167
PendingResponse(call) ==
    [requiresApproval |-> TRUE,
     toolName |-> call.name,
     toolArguments |-> call.arguments,
     actionDescription |-> GetActionDescription(call.name, call.arguments)]

\* typeof val !== 'object' on the fields of a tool's data: the fields below
\* hold arrays or objects, every other field a number or a string
ObjectFields == {"batches", "byState", "topError", "members", "inputIdentity"}
ScalarKeys(data) == DOMAIN data \ ObjectFields

\* formatToolResult(toolName, data): the text as a list of lines, for the
\* tools of ToolNames (the data of these tools has no byState field)
FormatToolResult(toolName, data) ==
    CASE toolName = "get_failed_batches" ->
            LET batches == IF "batches" \in DOMAIN data THEN data.batches ELSE <<>>
            IN  IF Len(batches) = 0
                THEN <<[line |-> "no_failed_batches"]>>
                ELSE <<[line |-> "failed_batches", count |-> Len(batches)]>>
      [] toolName = "get_segment_stats" ->
            <<[line |-> "segment_overview",
               total |-> IF "total" \in DOMAIN data /\ data.total # 0 THEN data.total
                         ELSE IF "totalSegments" \in DOMAIN data THEN data.totalSegments
                         ELSE 0,
               published |-> IF "published" \in DOMAIN data THEN data.published ELSE 0,
               draft |-> IF "draft" \in DOMAIN data THEN data.draft ELSE 0]>>
      [] OTHER ->
            IF Cardinality(DOMAIN data) <= 5
            THEN <<[line |-> "completed", tool |-> toolName]>>
                 \o LET keys == ScalarKeys(data)
                        Listing[ks \in SUBSET keys] ==
                            IF ks = {} THEN <<>>
                            ELSE LET k == CHOOSE x \in ks : TRUE
                                 IN  <<[line |-> "field", key |-> k, value |-> data[k]]>>
                                     \o Listing[ks \ {k}]
                    IN  Listing[keys]
            ELSE <<[line |-> "completed_successfully", tool |-> toolName]>>

IsError(result) == "error" \in DOMAIN result

\* formatResultsBasic(results, toolsUsed)
RECURSIVE BasicContent(_)
BasicContent(rs) ==
    IF rs = <<>> THEN <<>>
    ELSE LET r == rs[Len(rs)]
             front == BasicContent(SubSeq(rs, 1, Len(rs) - 1))
         IN  IF IsError(r)
             THEN Append(front, [line |-> "failed", tool |-> r.tool, error |-> r.error])
             ELSE front \o FormatToolResult(r.tool, r.data)
RECURSIVE BasicData(_)
BasicData(rs) ==
    IF rs = <<>> THEN Null
    ELSE LET r == rs[Len(rs)]
         IN  IF IsError(r) THEN BasicData(SubSeq(rs, 1, Len(rs) - 1)) ELSE r.data
FormatResultsBasicFirstData(rs, used) ==
    [content |-> BasicContent(rs),
     data |-> IF \A i \in 1..Len(rs) : IsError(rs[i]) THEN Null
              ELSE rs[CHOOSE i \in 1..Len(rs) :
                        ~IsError(rs[i]) /\ \A j \in 1..(i - 1) : IsError(rs[j])].data,
     toolsUsed |-> used]
FormatResultsBasic(rs, used) ==
    [content |-> BasicContent(rs), data |-> BasicData(rs), toolsUsed |-> used]

\* r.data of a result: undefined on an {tool, error} entry
DataOf(r) == IF IsError(r) THEN Undefined ELSE r.data

\* the object literal returned at agent.service.js:222-226
SummaryResponseSuccessfulTools(summary, rs, used) ==
    [content |-> IF summary # <<>> THEN summary ELSE FormatResultsBasic(rs, used).content,
     data |-> IF Len(rs) = 1 THEN DataOf(rs[1])
              ELSE [array |-> [i \in 1..Len(rs) |-> DataOf(rs[i])]],
     toolsUsed |-> SelectSeq([i \in 1..Len(rs) |-> rs[i].tool],
                             LAMBDA t : \E i \in 1..Len(rs) : rs[i].tool = t /\ ~IsError(rs[i]))]
SummaryResponseNoFallback(summary, rs, used) ==
    [content |-> summary,
     data |-> IF Len(rs) = 1 THEN DataOf(rs[1])
              ELSE [array |-> [i \in 1..Len(rs) |-> DataOf(rs[i])]],
     toolsUsed |-> used]
SummaryResponse(summary, rs, used) ==
    [content |-> IF summary # <<>> THEN summary ELSE FormatResultsBasic(rs, used).content,
     data |-> IF Len(rs) = 1 THEN DataOf(rs[1])
              ELSE [array |-> [i \in 1..Len(rs) |-> DataOf(rs[i])]],
     toolsUsed |-> used]

\* the fields a tool's output can have, in the order the tool writes them,
\* and the fields whose value is a string or an array of numbers (every other
\* field is a number)
KeyOrder == <<"id", "state", "total", "batches", "text">>
StringFields == {"id", "state", "text"}
ArrayFields == {"batches"}

\* the strings of ss joined by sep
Join(ss, sep) ==
    LET joined[i \in 0..Len(ss)] ==
            IF i = 0 THEN ""
            ELSE IF i = 1 THEN ss[1]
            ELSE joined[i - 1] \o sep \o ss[i]
    IN  joined[Len(ss)]

\* JSON.stringify(v, null, 2) of the value of field k, one level inside an
\* object (strings here hold no character that JSON escapes)
JsonValue(k, v) ==
    IF k \in StringFields THEN "\"" \o v \o "\""
    ELSE IF k \in ArrayFields
    THEN IF Len(v) = 0 THEN "[]"
         ELSE "[\n" \o Join([i \in 1..Len(v) |-> "    " \o ToString(v[i])], ",\n")
              \o "\n  ]"
    ELSE ToString(v)

\* JSON.stringify(data, null, 2) of a tool's output object (line 191)
JsonStringify(data) ==
    LET keys == SelectSeq(KeyOrder, LAMBDA k : k \in DOMAIN data)
    IN  IF Len(keys) = 0 THEN "{}"
        ELSE "{\n"
             \o Join([i \in 1..Len(keys) |->
                        "  \"" \o keys[i] \o "\": " \o JsonValue(keys[i], data[keys[i]])],
                     ",\n")
             \o "\n}"

\* the length above which a serialized result is cut (line 192)
EmbedLimit == 3000

\* dataStr.length > 3000 ? dataStr.substring(0, 3000) + '...' : dataStr
TruncatedFromLimit(dataStr) ==
    IF Len(dataStr) >= EmbedLimit
    THEN SubSeq(dataStr, 1, EmbedLimit) \o "..."
    ELSE dataStr
Truncated(dataStr) ==
    IF Len(dataStr) > EmbedLimit
    THEN SubSeq(dataStr, 1, EmbedLimit) \o "..."
    ELSE dataStr

\* resultContext built at agent.service.js:185-195, one section per result
ResultContextStopsAtFailure(rs) ==
    LET ok == {i \in 0..Len(rs) : \A j \in 1..i : ~IsError(rs[j])}
        n == CHOOSE i \in ok : \A k \in ok : k <= i
    IN  [i \in 1..n |->
            [section |-> "result", tool |-> rs[i].tool,
             json |-> Truncated(JsonStringify(rs[i].data))]]
ResultContext(rs) ==
    [i \in 1..Len(rs) |->
        IF IsError(rs[i])
        THEN [section |-> "failed", tool |-> rs[i].tool, error |-> rs[i].error]
        ELSE [section |-> "result", tool |-> rs[i].tool,
              json |-> Truncated(JsonStringify(rs[i].data))]]

\* the messages array built at agent.service.js:86-90
BuildMessagesShared(hist, msg) ==
    <<[role |-> "system", content |-> "SYSTEM_PROMPT"]>>
    \o [i \in 1..Len(chatHistory) |-> [role |-> chatHistory[i].role,
                                        content |-> chatHistory[i].content]]
    \o <<[role |-> "user", content |-> msg]>>
BuildMessages(hist, msg) ==
    <<[role |-> "system", content |-> "SYSTEM_PROMPT"]>>
    \o [i \in 1..Len(hist) |-> [role |-> hist[i].role, content |-> hist[i].content]]
    \o <<[role |-> "user", content |-> msg]>>

\* the patterns list of handleWithRules, in its order
Patterns ==
    << [tool |-> "get_failed_batches", args |-> [limit |-> 10]],
       [tool |-> "get_batch_stats", args |-> [timeRange |-> "24h"]],
       [tool |-> "get_schema_stats", args |-> <<>>],
       [tool |-> "list_datasets", args |-> [limit |-> 10]],
       [tool |-> "get_segment_stats", args |-> <<>>],
       [tool |-> "list_sandboxes", args |-> <<>>],
       [tool |-> "list_namespaces", args |-> <<>>] >>

\* pattern.match.test(message)
Matches(i, msg) == i \in msg

\* the first pattern of the list that matches, 0 when none does
FirstMatchLast(msg) ==
    IF \E i \in 1..Len(Patterns) : Matches(i, msg)
    THEN CHOOSE i \in 1..Len(Patterns) :
            Matches(i, msg) /\ \A j \in (i + 1)..Len(Patterns) : ~Matches(j, msg)
    ELSE 0
FirstMatch(msg) ==
    IF \E i \in 1..Len(Patterns) : Matches(i, msg)
    THEN CHOOSE i \in 1..Len(Patterns) :
            Matches(i, msg) /\ \A j \in 1..(i - 1) : ~Matches(j, msg)
    ELSE 0

HelpResponse == [content |-> <<[line |-> "help"]>>, toolsUsed |-> <<>>]

----------------------------------------------------------------------------
(* The turn *)

TypeOK ==
    /\ llmConfigured \in BOOLEAN
    /\ autoMode \in BOOLEAN
    /\ pc \in {"idle", "intent", "scan", "summarize", "approved", "rules", "done"}
    /\ requiresApproval \in BOOLEAN

Init ==
    /\ chatHistory = <<>>
    /\ llmConfigured \in BOOLEAN
    /\ message = {}
    /\ autoMode = FALSE
    /\ history = <<>>
    /\ approvedAction = NoAction
    /\ pc = "idle"
    /\ messages = <<>>
    /\ toolCalls = <<>>
    /\ results = <<>>
    /\ toolsUsed = <<>>
    /\ requiresApproval = FALSE
    /\ pendingTool = NoCall
    /\ originalMessage = Null
    /\ response = NoResponse
    /\ executed = <<>>
    /\ outcomes = <<>>
    /\ llmLog = <<>>
    /\ pendingAction = NoResponse
    /\ body = Undefined
    /\ qpc = "idle"
    /\ queryResult = Undefined
    /\ startTime = 0
    /\ now = 0
    /\ reply = NoResponse
    /\ sent = 0
    /\ queryLog = <<>>
    /\ message2 = {}
    /\ history2 = <<>>
    /\ messages2 = <<>>
    /\ pc2 = "idle"
    /\ panelMessages = <<"welcome">>
    /\ input = ""
    /\ loading = FALSE
    /\ panelAutoMode = FALSE
    /\ panelPending = Null
    /\ showAlerts = TRUE
    /\ inflight = {}
    /\ sentLog = <<>>

\* the variables an async function of the turn assigns while it runs
locals == <<results, toolsUsed, requiresApproval, pendingTool, originalMessage>>
\* the arguments of processMessage and what it builds before its first await
inputs == <<message, autoMode, history, approvedAction, messages, chatHistory,
            pendingAction>>

\* the turn's promise resolves with r
Return(r) ==
    /\ pc' = "done"
    /\ response' = r

\* the turn's promise rejects with an error carrying this message
Throw(msg) == Return([thrown |-> TRUE, errorMessage |-> msg])

\* the chatCompletion call being awaited settles: its entry of the log
\* is marked with how it settled and with what it returned or threw
Settled(log, how, what) ==
    [log EXCEPT ![Len(log)].outcome = how, ![Len(log)].returned = what]

\* summarizeResultsWithLLM(rs, used, orig) up to its await (lines 177-218);
\* log is the turn's chatCompletion calls so far
SummarizeResultsWithLLM(rs, used, orig, log) ==
    /\ results' = rs
    /\ toolsUsed' = used
    /\ originalMessage' = orig
    /\ IF ~llmConfigured
       THEN /\ Return(FormatResultsBasic(rs, used))
            /\ llmLog' = log
       ELSE /\ pc' = "summarize"
            /\ llmLog' = Append(log, [kind |-> "summary",
                                      outcome |-> "awaited",
                                      returned |-> Null,
                                      asked |-> orig,
                                      resultContext |-> ResultContext(rs)])
            /\ UNCHANGED response

\* the scan stops at a call that needs approval (lines 147-149) and the turn
\* returns the pending action (lines 161-168)
HaltAfterExecuting(call) ==
    /\ requiresApproval' = TRUE
    /\ pendingTool' = call
    /\ Return(PendingResponse(call))
    /\ executed' = Append(executed, call)
HaltWithFirstCall(call) ==
    /\ requiresApproval' = TRUE
    /\ pendingTool' = call
    /\ Return(PendingResponse(toolCalls'[1]))
    /\ UNCHANGED executed
HaltForApproval(call) ==
    /\ requiresApproval' = TRUE
    /\ pendingTool' = call
    /\ Return(PendingResponse(call))
    /\ UNCHANGED executed

\* the for loop of handleToolCalls from its next iteration on (lines 142-171),
\* with the results and toolsUsed gathered so far
ScanLoopAllAtOnce(rs, used, log) ==
    IF Len(used) = Len(toolCalls')
    THEN /\ SummarizeResultsWithLLM(rs, used, [text |-> message'], log)
         /\ UNCHANGED <<requiresApproval, pendingTool, executed>>
    ELSE LET call == toolCalls'[Len(used) + 1]
         IN  /\ toolsUsed' = Append(used, call.name)
             /\ results' = rs
             /\ llmLog' = log
             /\ UNCHANGED originalMessage
             /\ IF NeedsApproval(call.name, autoMode')
                THEN HaltForApproval(call)
                ELSE /\ pc' = "scan"
                     /\ executed' = IF used = <<>> THEN toolCalls' ELSE executed
                     /\ UNCHANGED <<requiresApproval, pendingTool, response>>
ScanLoop(rs, used, log) ==
    IF Len(used) = Len(toolCalls')
    THEN /\ SummarizeResultsWithLLM(rs, used, [text |-> message'], log)
         /\ UNCHANGED <<requiresApproval, pendingTool, executed>>
    ELSE LET call == toolCalls'[Len(used) + 1]
         IN  /\ toolsUsed' = Append(used, call.name)
             /\ results' = rs
             /\ llmLog' = log
             /\ UNCHANGED originalMessage
             /\ IF NeedsApproval(call.name, autoMode')
                THEN HaltForApproval(call)
                ELSE /\ pc' = "scan"
                     /\ executed' = Append(executed, call)
                     /\ UNCHANGED <<requiresApproval, pendingTool, response>>

\* handleWithRules(msg) up to its await (lines 362-378) or to the help
\* message (lines 390-398); ex is the turn's executions so far
HandleWithRulesDefaultTool(msg, ex) ==
    LET i == IF FirstMatch(msg) = 0 THEN 1 ELSE FirstMatch(msg)
    IN  /\ pc' = "rules"
        /\ executed' = Append(ex, [name |-> Patterns[i].tool,
                                   arguments |-> Patterns[i].args])
        /\ UNCHANGED response
HandleWithRules(msg, ex) ==
    LET i == FirstMatch(msg)
    IN  IF i = 0
        THEN /\ Return(HelpResponse)
             /\ executed' = ex
        ELSE /\ pc' = "rules"
             /\ executed' = Append(ex, [name |-> Patterns[i].tool,
                                        arguments |-> Patterns[i].args])
             /\ UNCHANGED response

\* response.requiresApproval (AgentPanel.jsx:243)
IsPending(r) == "requiresApproval" \in DOMAIN r

\* a value of the shape the caller echoes back as approvedAction
ApprovedActions == {PendingResponse(c) : c \in Calls}

\* executeApprovedAction(action) up to its await (lines 256-258)
ExecuteApprovedActionViaLLM(action) ==
    /\ pc' = "intent"
    /\ executed' = <<>>
    /\ llmLog' = <<[kind |-> "intent", outcome |-> "awaited", returned |-> Null,
                     messages |-> <<>>]>>
    /\ response' = NoResponse
ExecuteApprovedAction(action) ==
    /\ pc' = "approved"
    /\ executed' = <<[name |-> action.toolName, arguments |-> action.toolArguments]>>
    /\ llmLog' = <<>>
    /\ response' = NoResponse

\* processMessage({message, autoMode, history, approvedAction}) up to its first
\* await or, on the paths that have none, to its return (lines 76-105)
ProcessMessage(msg, auto, hist, action) ==
    /\ pc \in {"idle", "done"}
    /\ message' = msg
    /\ autoMode' = auto
    /\ history' = hist
    /\ approvedAction' = action
    /\ pendingAction' = IF IsPending(response) THEN response ELSE NoAction
    /\ toolCalls' = <<>>
    /\ results' = <<>>
    /\ toolsUsed' = <<>>
    /\ requiresApproval' = FALSE
    /\ pendingTool' = NoCall
    /\ originalMessage' = Null
    /\ outcomes' = <<>>
    /\ IF action # NoAction
       THEN /\ ExecuteApprovedAction(action)
            /\ messages' = <<>>
            /\ UNCHANGED chatHistory
       ELSE /\ chatHistory' = SliceLast(hist, HistLimit)
            /\ messages' = BuildMessages(chatHistory', msg)
            /\ IF ~llmConfigured
               THEN /\ HandleWithRules(msg, <<>>)
                    /\ llmLog' = <<>>
               ELSE /\ pc' = "intent"
                    /\ llmLog' = <<[kind |-> "intent", outcome |-> "awaited",
                                    returned |-> Null, messages |-> messages']>>
                    /\ executed' = <<>>
                    /\ response' = NoResponse
    /\ UNCHANGED <<llmConfigured, poller, second, panel>>

\* what llm.getContent can return: text, or nothing
LLMTexts == {<<>>, <<[line |-> "llm_text"]>>}
\* error.message of what the language-model client can throw
LLMErrors == {"llm_error", ""}

\* the intent call resolves and parseToolCalls finds calls (lines 102-113)
IntentReturnsToolCalls(calls) ==
    /\ pc = "intent"
    /\ toolCalls' = calls
    /\ UNCHANGED <<inputs, llmConfigured, poller, second, panel, outcomes>>
    /\ ScanLoop(<<>>, <<>>, Settled(llmLog, "resolved", [toolCalls |-> calls]))

\* the intent call resolves with no tool call (lines 108-119)
IntentReturnsTextSummarized(text) ==
    /\ pc = "intent"
    /\ SummarizeResultsWithLLM(<<>>, <<>>, [text |-> message],
                               Settled(llmLog, "resolved", [content |-> text]))
    /\ UNCHANGED <<inputs, llmConfigured, poller, second, panel, toolCalls, requiresApproval, pendingTool,
                   executed, outcomes>>
IntentReturnsText(text) ==
    /\ pc = "intent"
    /\ Return([content |-> text, toolsUsed |-> <<>>])
    /\ llmLog' = Settled(llmLog, "resolved", [content |-> text])
    /\ UNCHANGED <<inputs, llmConfigured, poller, second, panel, toolCalls, locals, executed, outcomes>>

\* chatCompletion, parseToolCalls or getContent throws (lines 121-130)
IntentFails(msg) ==
    /\ pc = "intent"
    /\ IF msg # ""
       THEN HandleWithRules(message, executed)
       ELSE Throw(msg) /\ UNCHANGED executed
    /\ llmLog' = Settled(llmLog, "rejected", [errorMessage |-> msg])
    /\ UNCHANGED <<inputs, llmConfigured, poller, second, panel, toolCalls, locals, outcomes>>

\* the call being executed by the scan
CurrentCall == toolCalls[Len(toolsUsed)]

\* executeTool resolves in the scan (lines 153-154)
ToolReturnsData(data) ==
    /\ pc = "scan"
    /\ UNCHANGED <<inputs, llmConfigured, poller, second, panel, toolCalls>>
    /\ outcomes' = Append(outcomes, [data |-> data])
    /\ ScanLoop(Append(results, [tool |-> CurrentCall.name, data |-> data,
                                 args |-> CurrentCall.arguments]),
                toolsUsed, llmLog)

ToolReturns ==
    /\ pc = "scan"
    /\ \E data \in ToolData(CurrentCall.name) : ToolReturnsData(data)

\* executeTool rejects in the scan (lines 155-157)
ToolThrowsAborts(err) ==
    /\ pc = "scan"
    /\ Throw(err)
    /\ outcomes' = Append(outcomes, [error |-> err])
    /\ UNCHANGED <<inputs, llmConfigured, poller, second, panel, toolCalls, locals, executed, llmLog>>
ToolThrows(err) ==
    /\ pc = "scan"
    /\ UNCHANGED <<inputs, llmConfigured, poller, second, panel, toolCalls>>
    /\ outcomes' = Append(outcomes, [error |-> err])
    /\ ScanLoop(Append(results, [tool |-> CurrentCall.name, error |-> err]),
                toolsUsed, llmLog)

\* the summarization call resolves (lines 220-226)
SummaryReturns(summary) ==
    /\ pc = "summarize"
    /\ Return(SummaryResponse(summary, results, toolsUsed))
    /\ llmLog' = Settled(llmLog, "resolved", [content |-> summary])
    /\ UNCHANGED <<inputs, llmConfigured, poller, second, panel, toolCalls, locals, executed, outcomes>>

\* the summarization call or getContent throws (lines 228-231)
SummaryFailsDropsResults ==
    /\ pc = "summarize"
    /\ Return(FormatResultsBasic(SubSeq(results, Len(results), Len(results)), toolsUsed))
    /\ llmLog' = Settled(llmLog, "rejected", [errorMessage |-> "llm_error"])
    /\ UNCHANGED <<inputs, llmConfigured, poller, second, panel, toolCalls, locals, executed, outcomes>>
SummaryFailsToRules ==
    /\ pc = "summarize"
    /\ HandleWithRules(message, executed)
    /\ llmLog' = Settled(llmLog, "rejected", [errorMessage |-> "llm_error"])
    /\ UNCHANGED <<inputs, llmConfigured, poller, second, panel, toolCalls, locals, outcomes>>
SummaryFails ==
    /\ pc = "summarize"
    /\ Return(FormatResultsBasic(results, toolsUsed))
    /\ llmLog' = Settled(llmLog, "rejected", [errorMessage |-> "llm_error"])
    /\ UNCHANGED <<inputs, llmConfigured, poller, second, panel, toolCalls, locals, executed, outcomes>>

\* executeTool resolves in executeApprovedAction (lines 258-263)
ApprovedToolReturnsData(data) ==
    /\ pc = "approved"
    /\ outcomes' = Append(outcomes, [data |-> data])
    /\ SummarizeResultsWithLLM(<<[tool |-> approvedAction.toolName, data |-> data]>>,
                               <<approvedAction.toolName>>,
                               [execute |-> approvedAction.toolName],
                               llmLog)
    /\ UNCHANGED <<inputs, llmConfigured, poller, second, panel, toolCalls, requiresApproval, pendingTool, executed>>

ApprovedToolReturns ==
    /\ pc = "approved"
    /\ \E data \in ToolData(approvedAction.toolName) : ApprovedToolReturnsData(data)

\* executeTool rejects in executeApprovedAction (lines 264-269)
ApprovedToolThrowsPropagates(err) ==
    /\ pc = "approved"
    /\ Throw(err)
    /\ outcomes' = Append(outcomes, [error |-> err])
    /\ UNCHANGED <<inputs, llmConfigured, poller, second, panel, toolCalls, locals, executed, llmLog>>
ApprovedToolThrowsToRules(err) ==
    /\ pc = "approved"
    /\ HandleWithRules(message, executed)
    /\ outcomes' = Append(outcomes, [error |-> err])
    /\ UNCHANGED <<inputs, llmConfigured, poller, second, panel, toolCalls, locals, llmLog>>
ApprovedToolThrows(err) ==
    /\ pc = "approved"
    /\ Return([content |-> <<[line |-> "error_executing",
                              tool |-> approvedAction.toolName, error |-> err]>>,
               toolsUsed |-> <<approvedAction.toolName>>])
    /\ outcomes' = Append(outcomes, [error |-> err])
    /\ UNCHANGED <<inputs, llmConfigured, poller, second, panel, toolCalls, locals, executed, llmLog>>

\* the tool of the rule that matched
RuleTool == executed[Len(executed)].name

\* executeTool resolves in handleWithRules (lines 378-383)
RuleToolReturnsNoData ==
    /\ pc = "rules"
    /\ \E data \in ToolData(RuleTool) :
          /\ outcomes' = Append(outcomes, [data |-> data])
          /\ Return([content |-> FormatToolResult(RuleTool, data),
                     toolsUsed |-> <<RuleTool>>])
    /\ UNCHANGED <<inputs, llmConfigured, poller, second, panel, toolCalls, locals, executed, llmLog>>
RuleToolReturns ==
    /\ pc = "rules"
    /\ \E data \in ToolData(RuleTool) :
          /\ outcomes' = Append(outcomes, [data |-> data])
          /\ Return([content |-> FormatToolResult(RuleTool, data),
                     data |-> data,
                     toolsUsed |-> <<RuleTool>>])
    /\ UNCHANGED <<inputs, llmConfigured, poller, second, panel, toolCalls, locals, executed, llmLog>>

\* the same continuation, for a given output of the tool
RuleToolReturnsData(data) ==
    /\ pc = "rules"
    /\ outcomes' = Append(outcomes, [data |-> data])
    /\ Return([content |-> FormatToolResult(RuleTool, data),
               data |-> data,
               toolsUsed |-> <<RuleTool>>])
    /\ UNCHANGED <<inputs, llmConfigured, poller, second, panel, toolCalls, locals, executed, llmLog>>

\* executeTool rejects in handleWithRules (lines 384-386)
RuleToolThrowsPropagates(err) ==
    /\ pc = "rules"
    /\ Throw(err)
    /\ outcomes' = Append(outcomes, [error |-> err])
    /\ UNCHANGED <<inputs, llmConfigured, poller, second, panel, toolCalls, locals, executed, llmLog>>
RuleToolThrows(err) ==
    /\ pc = "rules"
    /\ Return([content |-> <<[line |-> "error", error |-> err]>>,
               toolsUsed |-> <<RuleTool>>])
    /\ outcomes' = Append(outcomes, [error |-> err])
    /\ UNCHANGED <<inputs, llmConfigured, poller, second, panel, toolCalls, locals, executed, llmLog>>

\* getHistory() (lines 411-413)
GetHistory == chatHistory

\* clearHistory() (lines 418-420)
ClearHistory ==
    /\ chatHistory' = <<>>
    /\ UNCHANGED <<llmConfigured, message, autoMode, history, approvedAction, pc,
                   messages, toolCalls, locals, response, executed, outcomes,
                   llmLog, pendingAction, poller, second, panel>>

Next ==
    \/ \E msg \in Messages, auto \in BOOLEAN, hist \in Histories,
          action \in ApprovedActions \cup {NoAction} :
            ProcessMessage(msg, auto, hist, action)
    \/ \E calls \in CallLists : IntentReturnsToolCalls(calls)
    \/ \E text \in LLMTexts : IntentReturnsText(text)
    \/ \E msg \in LLMErrors : IntentFails(msg)
    \/ ToolReturns
    \/ \E err \in ToolErrors : ToolThrows(err)
    \/ \E summary \in LLMTexts : SummaryReturns(summary)
    \/ SummaryFails
    \/ ApprovedToolReturns
    \/ \E err \in ToolErrors : ApprovedToolThrows(err)
    \/ RuleToolReturns
    \/ \E err \in ToolErrors : RuleToolThrows(err)

Spec == Init /\ [][Next]_vars

\* turns answered by the rule matcher, over every combination of patterns a
\* message can match
RuleMessages == SUBSET (1..Len(Patterns))

NextRules ==
    \/ \E msg \in RuleMessages, auto \in BOOLEAN :
            ProcessMessage(msg, auto, <<>>, NoAction)
    \/ \E msg \in LLMErrors : IntentFails(msg)
    \/ RuleToolReturns
    \/ \E err \in ToolErrors : RuleToolThrows(err)

SpecRules == Init /\ [][NextRules]_vars

\* turns answered by the template formatter, over tool outputs of up to
\* MaxFields top-level fields, scalar ones and one that is an array
MaxFields == 6
ScalarFields == {"total", "count", "published", "draft", "limit", "offset"}
TemplateFields == ScalarFields \cup {"members"}
TemplateOutputs ==
    {[k \in ks |-> IF k \in ScalarFields THEN 1 ELSE <<>>] :
        ks \in {S \in SUBSET TemplateFields : Cardinality(S) <= MaxFields}}

NextTemplates ==
    \/ \E msg \in {{1}, {4}, {5}} : ProcessMessage(msg, FALSE, <<>>, NoAction)
    \/ \E msg \in LLMErrors : IntentFails(msg)
    \/ \E data \in TemplateOutputs : RuleToolReturnsData(data)

SpecTemplates == Init /\ [][NextTemplates]_vars

\* the turns together with the history operations of the module
NextHistory ==
    \/ Next
    \/ ClearHistory

SpecHistory == Init /\ [][NextHistory]_vars

----------------------------------------------------------------------------
(* Turns whose tools return outputs about as long as the summarizer's limit *)

MaxEmbedCalls == 2
MaxOver == 2

\* s repeated n times
RECURSIVE Repeat(_, _)
Repeat(s, n) ==
    IF n = 0 THEN ""
    ELSE LET half == Repeat(s, n \div 2)
         IN  IF n % 2 = 0 THEN half \o half ELSE half \o half \o s

\* a tool output whose serialization has n characters
OutputOfLength(n) ==
    [text |-> Repeat("x", n - Len(JsonStringify([text |-> ""])))]

\* small outputs, outputs whose serialization is one character short of the
\* limit, at the limit and up to MaxOver characters over it, and an output
\* of several fields that is over it
LargeOutputs ==
    {[total |-> 2], [id |-> "q1", state |-> "SUCCESS", text |-> Repeat("x", EmbedLimit)]}
    \cup {OutputOfLength(n) : n \in (EmbedLimit - 1)..(EmbedLimit + MaxOver)}

EmbedCalls ==
    {[name |-> "list_datasets", arguments |-> [limit |-> 5]],
     [name |-> "execute_sql_query", arguments |-> [sql |-> "q1"]]}
EmbedCallLists == SeqsUpTo(EmbedCalls, MaxEmbedCalls) \ {<<>>}

InitEmbed == Init /\ llmConfigured

NextEmbed ==
    \/ \E auto \in BOOLEAN, action \in ApprovedActions \cup {NoAction} :
            ProcessMessage({}, auto, <<>>, action)
    \/ \E calls \in EmbedCallLists : IntentReturnsToolCalls(calls)
    \/ \E data \in LargeOutputs : ToolReturnsData(data)
    \/ \E err \in ToolErrors : ToolThrows(err)
    \/ \E summary \in LLMTexts : SummaryReturns(summary)
    \/ SummaryFails
    \/ \E data \in LargeOutputs : ApprovedToolReturnsData(data)

SpecEmbed == InitEmbed /\ [][NextEmbed]_vars

----------------------------------------------------------------------------
(* POST /queries: submit a query job and poll it (part_000:347-383) *)

Timeout == 30000
PollInterval == 2000
NonTerminalStates == {"SUBMITTED", "IN_PROGRESS", "PENDING"}

\* the clock is read in steps of Step ms; an awaited call or a timer takes up
\* to MaxDelaySteps steps longer than its least duration
Step == 500
MaxDelaySteps == 1
Delays == {Step * k : k \in 0..MaxDelaySteps}

\* request bodies: no sql, an empty sql, a query
Bodies == {[name |-> "n"], [sql |-> ""], [sql |-> "select 1"]}
\* !sql
NoSql(b) == "sql" \notin DOMAIN b \/ b.sql = ""

\* the jobs queryService can answer with: createQuery, then getQueryDetails
Job(s) == [id |-> "q1", state |-> s]
CreatedJobs == {Job(s) : s \in {"SUBMITTED", "PENDING", "SUCCESS"}}
FetchedJobs == {Job(s) : s \in {"IN_PROGRESS", "SUCCESS", "FAILED"}}
QueryErrors == {"query_error"}

\* res.status(status).json(b), after n responses written for the request
Send(status, b, n) ==
    /\ qpc' = "sent"
    /\ reply' = [status |-> status, body |-> b]
    /\ sent' = n + 1

\* {...result, message: 'Query is still running. Check back later.', polling: true}
StillRunning(j) ==
    [id |-> j.id, state |-> j.state, message |-> "still_running", polling |-> TRUE]

\* the while loop from its condition on (lines 369-382), with the job just
\* obtained, at clock reading t, with the calls of the request so far
PollLoopSleepsFirst(j, t, start, log) ==
    /\ queryResult' = j
    /\ IF j.state \in NonTerminalStates /\ t - start > Timeout
       THEN /\ Send(200, StillRunning(j), sent)
            /\ queryLog' = log
       ELSE IF j.state \in NonTerminalStates \/ Len(log) = 1
       THEN /\ qpc' = "sleeping"
            /\ queryLog' = Append(log, [op |-> "setTimeout", ms |-> PollInterval,
                                        outcome |-> "awaited", returned |-> Null])
            /\ UNCHANGED <<reply, sent>>
       ELSE /\ Send(200, j, sent)
            /\ queryLog' = log
PollLoopTimeoutFirst(j, t, start, log) ==
    /\ queryResult' = j
    /\ IF t - start > Timeout
       THEN /\ Send(200, StillRunning(j), sent)
            /\ queryLog' = log
       ELSE IF j.state \in NonTerminalStates
       THEN /\ qpc' = "sleeping"
            /\ queryLog' = Append(log, [op |-> "setTimeout", ms |-> PollInterval,
                                        outcome |-> "awaited", returned |-> Null])
            /\ UNCHANGED <<reply, sent>>
       ELSE /\ Send(200, j, sent)
            /\ queryLog' = log
PollLoopNoTimeout(j, t, start, log) ==
    /\ queryResult' = j
    /\ IF j.state \in NonTerminalStates
       THEN /\ qpc' = "sleeping"
            /\ queryLog' = Append(log, [op |-> "setTimeout", ms |-> PollInterval,
                                        outcome |-> "awaited", returned |-> Null])
            /\ UNCHANGED <<reply, sent>>
       ELSE /\ Send(200, j, sent)
            /\ queryLog' = log
PollLoopNoReturn(j, t, start, log) ==
    /\ queryResult' = j
    /\ IF j.state \in NonTerminalStates
       THEN /\ qpc' = "sleeping"
            /\ queryLog' = Append(log, [op |-> "setTimeout", ms |-> PollInterval,
                                        outcome |-> "awaited", returned |-> Null])
            /\ IF t - start > Timeout
               THEN /\ reply' = [status |-> 200, body |-> StillRunning(j)]
                    /\ sent' = sent + 1
               ELSE UNCHANGED <<reply, sent>>
       ELSE /\ Send(200, j, sent)
            /\ queryLog' = log
PollLoop(j, t, start, log) ==
    /\ queryResult' = j
    /\ IF j.state \in NonTerminalStates
       THEN IF t - start > Timeout
            THEN /\ Send(200, StillRunning(j), sent)
                 /\ queryLog' = log
            ELSE /\ qpc' = "sleeping"
                 /\ queryLog' = Append(log, [op |-> "setTimeout", ms |-> PollInterval,
                                             outcome |-> "awaited", returned |-> Null])
                 /\ UNCHANGED <<reply, sent>>
       ELSE /\ Send(200, j, sent)
            /\ queryLog' = log

\* the handler up to its first await (lines 347-362); the clock is read
\* from the arrival of the request
PostQueriesUnvalidated(b) ==
    /\ qpc \in {"idle", "sent"}
    /\ body' = b
    /\ now' = 0
    /\ startTime' = 0
    /\ queryResult' = Undefined
    /\ qpc' = "creating"
    /\ reply' = NoResponse
    /\ sent' = 0
    /\ queryLog' = <<[op |-> "createQuery", sql |-> Field(b, "sql"),
                      outcome |-> "awaited", returned |-> Null]>>
    /\ UNCHANGED <<agent, second, panel>>
PostQueries(b) ==
    /\ qpc \in {"idle", "sent"}
    /\ body' = b
    /\ now' = 0
    /\ startTime' = 0
    /\ queryResult' = Undefined
    /\ IF NoSql(b)
       THEN /\ Send(400, [error |-> "SQL query is required"], 0)
            /\ queryLog' = <<>>
       ELSE /\ qpc' = "creating"
            /\ reply' = NoResponse
            /\ sent' = 0
            /\ queryLog' = <<[op |-> "createQuery", sql |-> Field(b, "sql"),
                              outcome |-> "awaited", returned |-> Null]>>
    /\ UNCHANGED <<agent, second, panel>>

\* createQuery resolves after d ms; startTime is read (lines 362-367)
CreateQueryReturns(j, d) ==
    /\ qpc = "creating"
    /\ now' = now + d
    /\ startTime' = now'
    /\ PollLoop(j, now', startTime', Settled(queryLog, "resolved", j))
    /\ UNCHANGED <<agent, second, panel, body>>

\* an awaited queryService call rejects: asyncHandler answers 500 (lines 20-25)
QueryServiceThrows(err) ==
    /\ qpc \in {"creating", "fetching"}
    /\ Send(500, [error |-> err], sent)
    /\ queryLog' = Settled(queryLog, "rejected", [errorMessage |-> err])
    /\ UNCHANGED <<agent, second, panel, body, queryResult, startTime, now>>

\* the timer fires d ms late and getQueryDetails is called (lines 378-379)
TimerFires(d) ==
    /\ qpc = "sleeping"
    /\ now' = now + PollInterval + d
    /\ qpc' = "fetching"
    /\ queryLog' = Append(Settled(queryLog, "resolved", Undefined),
                          [op |-> "getQueryDetails", id |-> queryResult.id,
                           outcome |-> "awaited", returned |-> Null])
    /\ UNCHANGED <<agent, second, panel, body, queryResult, startTime, reply, sent>>

\* getQueryDetails resolves after d ms (lines 379, 369)
GetQueryDetailsReturns(j, d) ==
    /\ qpc = "fetching"
    /\ now' = now + d
    /\ PollLoop(j, now', startTime, Settled(queryLog, "resolved", j))
    /\ UNCHANGED <<agent, second, panel, body, startTime>>

NextPoller ==
    \/ \E b \in Bodies : PostQueries(b)
    \/ \E j \in CreatedJobs, d \in Delays : CreateQueryReturns(j, d)
    \/ \E err \in QueryErrors : QueryServiceThrows(err)
    \/ \E d \in Delays : TimerFires(d)
    \/ \E j \in FetchedJobs, d \in Delays : GetQueryDetailsReturns(j, d)

SpecPoller == Init /\ [][NextPoller]_vars

----------------------------------------------------------------------------
(* Two callers' turns interleaved *)

\* the histories of the second caller: no entry of them is an entry of a
\* history of the first
OtherOffset == 100
Histories2 == {[i \in 1..n |-> ChatMessage(OtherOffset + i)] : n \in HistLens}

\* processMessage of the second caller's turn up to its first await (lines
\* 76-105): it assigns the shared chatHistory and builds its own context
ProcessMessage2(msg, hist) ==
    /\ pc2 \in {"idle", "done"}
    /\ message2' = msg
    /\ history2' = hist
    /\ chatHistory' = SliceLast(hist, HistLimit)
    /\ messages2' = BuildMessages(chatHistory', msg)
    /\ pc2' = "running"
    /\ UNCHANGED <<llmConfigured, message, autoMode, history, approvedAction, pc,
                   messages, toolCalls, locals, response, executed, outcomes,
                   llmLog, pendingAction, poller, panel>>

\* the rest of the second caller's turn: nothing of it reads or writes
\* chatHistory (lines 92-131)
Turn2Settles ==
    /\ pc2 = "running"
    /\ pc2' = "done"
    /\ UNCHANGED <<agent, poller, panel, message2, history2, messages2>>

NextInterleaved ==
    \/ \E msg \in Messages, hist \in Histories :
          ProcessMessage(msg, FALSE, hist, NoAction)
    \/ \E text \in LLMTexts : IntentReturnsText(text)
    \/ \E err \in LLMErrors : IntentFails(err)
    \/ RuleToolReturns
    \/ \E err \in ToolErrors : RuleToolThrows(err)
    \/ \E msg \in Messages, hist \in Histories2 : ProcessMessage2(msg, hist)
    \/ Turn2Settles

SpecInterleaved == Init /\ [][NextInterleaved]_vars

----------------------------------------------------------------------------
(* The chat panel (frontend/src/components/AgentPanel.jsx) *)

\* requests the panel sends in one run of the model
MaxRequests == 3

\* messages.slice(-10) of the payload
PanelHistLimit == 10

\* what the user can have in the input box, trimmed
Texts == {"", "typed"}

\* a message of the list carries the Approve and Cancel buttons
Displayed(kind) == \E i \in 1..Len(panelMessages) : panelMessages[i] = kind

\* prev.filter(m => !m.isPending)
NotPending(ms) == SelectSeq(ms, LAMBDA m : m # "pending")

\* the server's answer to the chat request at position k of sentLog: a
\* pending approval, only for a request without autoMode, or an answer
PendingReply(k) ==
    [requiresApproval |-> TRUE, toolName |-> "create_segment", request |-> k]
Answer == [content |-> "answer"]
ChatReplies(k) ==
    {Answer} \cup (IF sentLog[k].autoMode THEN {} ELSE {PendingReply(k)})

\* onChange of the textarea, which is disabled while loading or while an
\* action is pending (lines 538-546)
SetInput(text) ==
    /\ ~(loading \/ panelPending # Null)
    /\ input' = text
    /\ UNCHANGED <<agent, poller, second, panelMessages, loading, panelAutoMode,
                   panelPending, showAlerts, inflight, sentLog>>

\* click on a quick prompt, shown while the list has at most two messages
\* and the alerts are hidden (lines 514-531)
QuickPromptClick ==
    /\ Len(panelMessages) <= 2 /\ ~showAlerts
    /\ input' = "prompt"
    /\ UNCHANGED <<agent, poller, second, panelMessages, loading, panelAutoMode,
                   panelPending, showAlerts, inflight, sentLog>>

\* handleAlertClick(alert) on an alert of the alerts card (lines 211-216)
HandleAlertClick ==
    /\ showAlerts
    /\ input' = "alert"
    /\ showAlerts' = FALSE
    /\ UNCHANGED <<agent, poller, second, panelMessages, loading, panelAutoMode,
                   panelPending, inflight, sentLog>>

\* the auto-mode checkbox (line 378)
ToggleAutoMode ==
    /\ panelAutoMode' = ~panelAutoMode
    /\ UNCHANGED <<agent, poller, second, panelMessages, input, loading,
                   panelPending, showAlerts, inflight, sentLog>>

\* handleSend() up to its await (lines 218-241), from the send button, which
\* is disabled while loading or while the input is empty (lines 547-553);
\* whilePending notes the pending action the panel held when it sent
HandleSend ==
    /\ ~(input = "" \/ loading)
    /\ Len(sentLog) < MaxRequests
    /\ showAlerts' = FALSE
    /\ panelMessages' = Append(panelMessages, "user")
    /\ input' = ""
    /\ loading' = TRUE
    /\ sentLog' = Append(sentLog, [kind |-> "chat", message |-> input,
                                   autoMode |-> panelAutoMode,
                                   history |-> SliceLast(panelMessages, PanelHistLimit),
                                   whilePending |-> panelPending])
    /\ inflight' = inflight \cup {Len(sentLog) + 1}
    /\ UNCHANGED <<agent, poller, second, panelAutoMode, panelPending>>

\* sendAgentMessage of handleSend resolves with r (lines 243-266, 275-277)
HandleSendResolves(k, r) ==
    /\ k \in inflight /\ sentLog[k].kind = "chat"
    /\ inflight' = inflight \ {k}
    /\ IF IsPending(r) /\ ~sentLog[k].autoMode
       THEN /\ panelPending' = r
            /\ panelMessages' = Append(panelMessages, "pending")
       ELSE /\ panelMessages' = Append(panelMessages, "assistant")
            /\ UNCHANGED panelPending
    /\ loading' = FALSE
    /\ UNCHANGED <<agent, poller, second, input, panelAutoMode, showAlerts, sentLog>>

\* sendAgentMessage of handleSend rejects (lines 267-277)
HandleSendRejects(k) ==
    /\ k \in inflight /\ sentLog[k].kind = "chat"
    /\ inflight' = inflight \ {k}
    /\ panelMessages' = Append(panelMessages, "error")
    /\ loading' = FALSE
    /\ UNCHANGED <<agent, poller, second, input, panelAutoMode, panelPending,
                   showAlerts, sentLog>>

\* handleAction('approve') up to its await (lines 280-288), from the Approve
\* button of a pending message (lines 477-487)
HandleActionApprove ==
    /\ Displayed("pending")
    /\ panelPending # Null
    /\ Len(sentLog) < MaxRequests
    /\ loading' = TRUE
    /\ sentLog' = Append(sentLog, [kind |-> "approve",
                                   message |-> "__EXECUTE_APPROVED__",
                                   approvedAction |-> panelPending,
                                   autoMode |-> TRUE])
    /\ inflight' = inflight \cup {Len(sentLog) + 1}
    /\ UNCHANGED <<agent, poller, second, panelMessages, input, panelAutoMode,
                   panelPending, showAlerts>>

\* sendAgentMessage of handleAction resolves (lines 289-298, 306-309)
ApproveResolves(k) ==
    /\ k \in inflight /\ sentLog[k].kind = "approve"
    /\ inflight' = inflight \ {k}
    /\ panelMessages' = Append(NotPending(panelMessages), "assistant")
    /\ panelPending' = Null
    /\ loading' = FALSE
    /\ UNCHANGED <<agent, poller, second, input, panelAutoMode, showAlerts, sentLog>>

\* sendAgentMessage of handleAction rejects (lines 299-309)
ApproveRejects(k) ==
    /\ k \in inflight /\ sentLog[k].kind = "approve"
    /\ inflight' = inflight \ {k}
    /\ panelMessages' = Append(panelMessages, "error")
    /\ panelPending' = Null
    /\ loading' = FALSE
    /\ UNCHANGED <<agent, poller, second, input, panelAutoMode, showAlerts, sentLog>>

\* handleAction('cancel'), from the Cancel button of a pending message
\* (lines 310-316)
HandleActionCancel ==
    /\ Displayed("pending")
    /\ panelMessages' = Append(NotPending(panelMessages), "cancelled")
    /\ panelPending' = Null
    /\ UNCHANGED <<agent, poller, second, input, loading, panelAutoMode,
                   showAlerts, inflight, sentLog>>

NextPanel ==
    \/ \E text \in Texts : SetInput(text)
    \/ QuickPromptClick
    \/ HandleAlertClick
    \/ ToggleAutoMode
    \/ HandleSend
    \/ \E k \in inflight : \E r \in ChatReplies(k) : HandleSendResolves(k, r)
    \/ \E k \in inflight : HandleSendRejects(k)
    \/ HandleActionApprove
    \/ \E k \in inflight : ApproveResolves(k)
    \/ \E k \in inflight : ApproveRejects(k)
    \/ HandleActionCancel

SpecPanel == Init /\ [][NextPanel]_vars

----------------------------------------------------------------------------
(* Properties of the approval gate and of the tool scan *)

Names(calls) == [i \in 1..Len(calls) |-> calls[i].name]

\* position of the first call whose tool the registry flags, 0 when none is
FirstFlagged(calls) ==
    IF \E i \in 1..Len(calls) : RequiresApproval(calls[i].name)
    THEN CHOOSE i \in 1..Len(calls) :
            /\ RequiresApproval(calls[i].name)
            /\ \A j \in 1..(i - 1) : ~RequiresApproval(calls[j].name)
    ELSE 0

\* the turn came through the tool scan of handleToolCalls
Scanned == approvedAction = NoAction /\ toolCalls # <<>>

C2_FirstFlaggedCallHaltsScan ==
    (Scanned /\ ~autoMode /\ FirstFlagged(toolCalls) # 0) =>
        LET k == FirstFlagged(toolCalls)
        IN  /\ Len(executed) < k
            /\ executed = SubSeq(toolCalls, 1, Len(executed))
            /\ pc = "done" => executed = SubSeq(toolCalls, 1, k - 1)
            /\ pc \in {"scan", "done"}

\* the scan halted at the second of three calls, after executing the first
C2_Witness ==
    /\ pc = "done" /\ Scanned /\ ~autoMode
    /\ Len(toolCalls) = 3 /\ FirstFlagged(toolCalls) = 2
    /\ Len(executed) = 1

\* C3: with autoMode false and the k-th call the first flagged one, the turn's
\* response is the pending action of the k-th call (its name and arguments)
\* and has no other field: nothing of calls 1..k-1 is in it.
C3_PendingResponseIsKthCall ==
    (pc = "done" /\ Scanned /\ ~autoMode /\ FirstFlagged(toolCalls) # 0) =>
        LET call == toolCalls[FirstFlagged(toolCalls)]
        IN  /\ DOMAIN response =
                  {"requiresApproval", "toolName", "toolArguments", "actionDescription"}
            /\ response.requiresApproval = TRUE
            /\ response.toolName = call.name
            /\ response.toolArguments = call.arguments
            /\ response.actionDescription =
                  GetActionDescription(call.name, call.arguments)

\* the third call was the first flagged one; two results had been gathered,
\* one of them a failure
C3_Witness ==
    /\ pc = "done" /\ Scanned /\ ~autoMode
    /\ FirstFlagged(toolCalls) = 3
    /\ Len(results) = 2
    /\ \E i \in 1..2 : IsError(results[i])
    /\ IsPending(response)

\* C4: with autoMode true no turn returns a pending action, and every call the
\* model returned is executed, whatever the registry flags.
C4_AutoModeNeverPends ==
    autoMode =>
        /\ ~IsPending(response)
        /\ ~requiresApproval
        /\ (Scanned /\ pc \in {"summarize", "done"}) => executed = toolCalls

\* an auto-mode turn ended with two flagged calls among those it executed
C4_Witness ==
    /\ pc = "done" /\ Scanned /\ autoMode
    /\ Cardinality({i \in 1..Len(toolCalls) : RequiresApproval(toolCalls[i].name)}) >= 2
    /\ executed = toolCalls

\* C5: the scan stops at a call exactly when the registry flags its tool and
\* autoMode is false; the call's arguments, its position and the earlier
\* results play no part.
C5_ApprovalDecision ==
    Scanned =>
        \A i \in 1..Len(toolsUsed) :
            (requiresApproval /\ pendingTool = toolCalls[i] /\ i = Len(toolsUsed))
                <=> (RequiresApproval(toolCalls[i].name) /\ ~autoMode)

\* safe mode: an unflagged call passed after a failed one, then a flagged call
\* stopped the scan
C5_Witness ==
    /\ Scanned /\ ~autoMode /\ requiresApproval
    /\ Len(toolsUsed) = 3
    /\ IsError(results[1])
    /\ ~RequiresApproval(toolCalls[2].name)

----------------------------------------------------------------------------
(* Properties of approved actions *)

\* C6: a turn with approvedAction executes exactly one tool, the one named in
\* it with its arguments unchanged, whatever autoMode, the registry flag and
\* the caller's pending action are; when that execution fails the turn
\* returns the error text {content, toolsUsed: [toolName]} and does not throw.
C6_ApprovedActionExecutesOneTool ==
    approvedAction # NoAction =>
        /\ executed = <<[name |-> approvedAction.toolName,
                         arguments |-> approvedAction.toolArguments]>>
        /\ pc = "done" =>
              /\ "thrown" \notin DOMAIN response
              /\ "content" \in DOMAIN response
              /\ response.toolsUsed = <<approvedAction.toolName>>
        /\ (pc = "done" /\ results = <<>>) =>
              /\ DOMAIN response = {"content", "toolsUsed"}
              /\ Len(response.content) = 1
              /\ response.content[1].tool = approvedAction.toolName
              /\ response.content[1].error \in ToolErrors

\* a flagged tool, approved in safe mode without any pending action having
\* been issued, failed
C6_Witness ==
    /\ pc = "done" /\ approvedAction # NoAction /\ ~autoMode
    /\ pendingAction = NoAction
    /\ RequiresApproval(approvedAction.toolName)
    /\ results = <<>>

\* C7: when the approvedAction of a turn is the pending action the previous
\* turn returned, the turn executes the tool of that pending action with its
\* arguments and nothing else, and makes no intent call to the model.
C7_PendingActionRoundTrip ==
    (pendingAction # NoAction /\ approvedAction = pendingAction) =>
        /\ executed = <<[name |-> pendingAction.toolName,
                         arguments |-> pendingAction.toolArguments]>>
        /\ \A i \in 1..Len(llmLog) : llmLog[i].kind # "intent"

\* the echoed pending action was executed and its result summarized by the
\* model
C7_Witness ==
    /\ pc = "done"
    /\ pendingAction # NoAction /\ approvedAction = pendingAction
    /\ Len(llmLog) = 1 /\ llmLog[1].outcome = "resolved"
    /\ "data" \in DOMAIN response

----------------------------------------------------------------------------
(* Properties of the final response of a scan *)

\* the scan ran to its end: no call needed approval
ScanCompleted ==
    /\ pc = "done" /\ Scanned
    /\ autoMode \/ FirstFlagged(toolCalls) = 0

\* the summarization call of the turn resolved: the response is the model's
SummarizedByModel == llmLog[Len(llmLog)].outcome = "resolved"

\* C8: after a scan in which no call needed approval, toolsUsed of the
\* response is the list of call names in the model's order, duplicates and
\* failed calls included, on the model-summary and on the template path.
C8_ToolsUsedIsCallNames ==
    ScanCompleted => response.toolsUsed = Names(toolCalls)

\* template path, three calls, the first and third to the same tool, one
\* failed
C8_Witness ==
    /\ ScanCompleted /\ ~SummarizedByModel
    /\ Len(toolCalls) = 3
    /\ toolCalls[1].name = toolCalls[3].name
    /\ IsError(results[3])
    /\ response.toolsUsed = Names(toolCalls)

\* data of a response is the data of result r, alone or as the entry at r's
\* position in a list; a failed result has no data
NoData(d) == d \in {Null, Undefined}
ReflectsResult(d, rs, i) ==
    \/ d = DataOf(rs[i])
    \/ NoData(d) /\ IsError(rs[i])
    \/ "array" \in DOMAIN d /\ d.array[i] = DataOf(rs[i])

\* C9 as stated: after a scan in which no call needed approval, data of the
\* response is the result of the last tool call on both summary paths.
C9_DataIsLastResult ==
    ScanCompleted => ReflectsResult(response.data, results, Len(results))

\* data of the last result that is not a failure, null when all failed
LastSuccessfulData(rs) ==
    LET ok == {i \in 1..Len(rs) : ~IsError(rs[i])}
    IN  IF ok = {} THEN Null
        ELSE rs[CHOOSE i \in ok : \A j \in ok : j <= i].data

\* C9 amended: after a scan in which no call needed approval, data of a
\* template response is the data of the last successful result (null when
\* every call failed); data of a model-summary response is the only result's
\* data when one call was made, and otherwise the list of every call's data in
\* call order (undefined at a failed call).
C9_DataOfFinalResponse ==
    ScanCompleted =>
        IF SummarizedByModel
        THEN IF Len(results) = 1
             THEN response.data = DataOf(results[1])
             ELSE /\ DOMAIN response.data = {"array"}
                  /\ Len(response.data.array) = Len(results)
                  /\ \A i \in 1..Len(results) :
                        response.data.array[i] = DataOf(results[i])
        ELSE response.data = LastSuccessfulData(results)

\* template path: the last call failed and data is that of an earlier call
C9_Witness ==
    /\ ScanCompleted /\ ~SummarizedByModel
    /\ Len(results) = 3
    /\ ~IsError(results[1]) /\ ~IsError(results[2]) /\ IsError(results[3])
    /\ results[1].data # results[2].data
    /\ response.data = results[2].data

----------------------------------------------------------------------------
(* Properties of the conversation history *)

Min(a, b) == IF a <= b THEN a ELSE b

\* the {role, content} of the most recent min(20, length) entries of h
RecentContext(h) ==
    LET n == Min(20, Len(h))
    IN  [i \in 1..n |-> [role |-> h[Len(h) - n + i].role,
                         content |-> h[Len(h) - n + i].content]]

\* C10: the context of a turn's intent call is the system prompt, the most
\* recent min(20, length) entries of the caller's history in their order, and
\* the message; the history the orchestrator holds never exceeds 20 entries.
C10_HistoryTruncatedToRecent20 ==
    /\ Len(chatHistory) <= 20
    /\ (approvedAction = NoAction /\ pc # "idle") =>
          /\ Len(messages) = Min(20, Len(history)) + 2
          /\ SubSeq(messages, 2, Len(messages) - 1) = RecentContext(history)
          /\ messages[Len(messages)] = [role |-> "user", content |-> message]
          /\ \A i \in 1..Len(llmLog) :
                llmLog[i].kind = "intent" => llmLog[i].messages = messages

\* an intent call is awaited whose context dropped the oldest entries of a
\* history of more than 20
C10_Witness ==
    /\ pc = "intent"
    /\ Len(history) > 20
    /\ Len(chatHistory) = 20
    /\ llmLog[1].messages[2].content = history[Len(history) - 19].content
    /\ llmLog[1].messages[2].content # history[1].content

----------------------------------------------------------------------------
(* Properties of the orchestrator's state between turns *)

\* C11: the orchestrator is stateless between turns: no turn leaves anything
\* behind that a later operation can observe, so what the history read
\* operation returns never depends on the turns that ran before it.
C11_NothingPersistsAcrossTurns ==
    GetHistory = <<>>

----------------------------------------------------------------------------
(* Properties of the intent step and of the rule-based fallback *)

\* the turn's first chatCompletion call, the intent call, settled this way
IntentSettled(how) ==
    /\ approvedAction = NoAction
    /\ llmLog # <<>>
    /\ llmLog[1].kind = "intent"
    /\ llmLog[1].outcome = how

Thrown(r) == "thrown" \in DOMAIN r

\* C12: any failure of the language-model collaborator during the intent step
\* is caught and the turn goes on to the rule-based fallback; the turn never
\* fails towards the caller because of it.
C12_IntentFailureDegradesToRules ==
    IntentSettled("rejected") =>
        /\ pc \in {"rules", "done"}
        /\ ~Thrown(response)

\* the turn went through handleWithRules: the model is not configured, or the
\* intent step threw an error the catch block hands to the rules
RulesReached ==
    /\ approvedAction = NoAction
    /\ pc \in {"rules", "done"}
    /\ \/ ~llmConfigured
       \/ IntentSettled("rejected") /\ llmLog[1].returned.errorMessage # ""

\* C13: with the model not configured, a turn without approvedAction makes no
\* chatCompletion call at any point, and a message matching the failed-batch
\* pattern yields toolsUsed = [get_failed_batches], data = the tool's output
\* and the template text for that output.
C13_UnconfiguredTurnUsesRulesOnly ==
    (~llmConfigured /\ approvedAction = NoAction) =>
        /\ llmLog = <<>>
        /\ pc \in {"idle", "rules", "done"}
        /\ (pc = "done" /\ 1 \in message /\ outcomes # <<>> /\ "data" \in DOMAIN outcomes[1]) =>
              /\ DOMAIN response = {"content", "data", "toolsUsed"}
              /\ response.toolsUsed = <<"get_failed_batches">>
              /\ response.data = outcomes[1].data
              /\ response.data.batches = <<>> =>
                    response.content = <<[line |-> "no_failed_batches"]>>

\* "show me failed batches" with no model and a tool returning {batches: []}
C13_Witness ==
    /\ ~llmConfigured /\ approvedAction = NoAction /\ pc = "done"
    /\ 1 \in message
    /\ outcomes = <<[data |-> [batches |-> <<>>]]>>
    /\ response.content = <<[line |-> "no_failed_batches"]>>

\* C14: when the intent call's response has no tool call, the turn ends with a
\* plain-text response: content is the model's text, toolsUsed is empty, no
\* tool is executed and no summarization call is made.
C14_NoToolCallsGivesPlainText ==
    (IntentSettled("resolved") /\ "content" \in DOMAIN llmLog[1].returned) =>
        /\ pc = "done"
        /\ response = [content |-> llmLog[1].returned.content, toolsUsed |-> <<>>]
        /\ executed = <<>>
        /\ outcomes = <<>>
        /\ Len(llmLog) = 1

\* the model answered with text and no tool call
C14_Witness ==
    /\ IntentSettled("resolved") /\ pc = "done"
    /\ llmLog[1].returned = [content |-> <<[line |-> "llm_text"]>>]
    /\ response.content = <<[line |-> "llm_text"]>>

\* the earliest pattern of the list that the message matches
Earliest(msg) == CHOOSE i \in msg : \A j \in msg : i <= j

\* C15: the rule matcher takes its patterns in their listed order and at most
\* one tool executes per fallback: only the tool of the earliest matching
\* pattern is executed, with that pattern's static arguments, and toolsUsed is
\* that single tool name.
C15_EarliestPatternWins ==
    (RulesReached /\ message # {}) =>
        LET rule == Patterns[Earliest(message)]
        IN  /\ executed = <<[name |-> rule.tool, arguments |-> rule.args]>>
            /\ Len(outcomes) <= 1
            /\ pc = "done" => response.toolsUsed = <<rule.tool>>

\* a message matching the fourth and the sixth pattern ran list_datasets only
C15_Witness ==
    /\ RulesReached /\ pc = "done"
    /\ message = {4, 6}
    /\ executed = <<[name |-> "list_datasets", arguments |-> [limit |-> 10]]>>
    /\ response.toolsUsed = <<"list_datasets">>

\* C16: when the rule matcher is reached and no pattern matches, the turn
\* returns the fixed help message with toolsUsed empty and no data, and no tool
\* is executed in the turn.
C16_NoMatchGivesHelp ==
    (RulesReached /\ message = {}) =>
        /\ pc = "done"
        /\ response = [content |-> <<[line |-> "help"]>>, toolsUsed |-> <<>>]
        /\ executed = <<>>
        /\ outcomes = <<>>

\* the model failed and the message matched no pattern
C16_Witness ==
    /\ RulesReached /\ message = {}
    /\ IntentSettled("rejected")
    /\ response.content = <<[line |-> "help"]>>

\* C17: if the tool of the matched pattern fails, the fallback returns a
\* response whose content is one error line and whose toolsUsed is that tool's
\* name; the failure is not propagated and no further pattern is tried.
C17_RuleToolFailureIsAnErrorLine ==
    (RulesReached /\ outcomes # <<>> /\ "error" \in DOMAIN outcomes[1]) =>
        /\ pc = "done"
        /\ response = [content |-> <<[line |-> "error", error |-> outcomes[1].error]>>,
                       toolsUsed |-> <<Patterns[Earliest(message)].tool>>]
        /\ Len(executed) = 1
        /\ Len(outcomes) = 1

\* the message matched two patterns and the tool of the first one failed
C17_Witness ==
    /\ RulesReached /\ pc = "done"
    /\ Cardinality(message) = 2
    /\ outcomes = <<[error |-> "tool_error"]>>
    /\ Len(response.content) = 1

----------------------------------------------------------------------------
(* Properties of failures inside a scan and of the summarizer *)

\* the scan went past its last call without halting for approval
ScanRanToEnd == Scanned /\ pc \in {"summarize", "done"} /\ ~requiresApproval

\* C18: a tool that fails during the scan does not abort the turn: the failure
\* is a {tool, error} entry at its position of the results list, the scan goes
\* on with the following calls, and an un-halted scan ends with as many result
\* entries as there were tool calls.
C18_FailedToolDoesNotAbortScan ==
    Scanned =>
        /\ ~Thrown(response)
        /\ Len(results) = Len(outcomes)
        /\ \A i \in 1..Len(outcomes) :
              IF "error" \in DOMAIN outcomes[i]
              THEN results[i] = [tool |-> toolCalls[i].name, error |-> outcomes[i].error]
              ELSE /\ ~IsError(results[i])
                   /\ results[i].tool = toolCalls[i].name
                   /\ results[i].data = outcomes[i].data
        /\ pc = "scan" => Len(toolsUsed) = Len(outcomes) + 1
        /\ (pc # "scan" /\ ~requiresApproval) => Len(outcomes) = Len(toolCalls)
        /\ ScanRanToEnd => Len(results) = Len(toolCalls)

\* a scan of three calls ran to its end although the first call failed
C18_Witness ==
    /\ ScanRanToEnd /\ pc = "done"
    /\ Len(toolCalls) = 3
    /\ "error" \in DOMAIN outcomes[1]
    /\ "data" \in DOMAIN outcomes[2]
    /\ Len(results) = 3

\* the turn's summarization call was rejected
SummaryRejected ==
    /\ llmLog # <<>>
    /\ llmLog[Len(llmLog)].kind = "summary"
    /\ llmLog[Len(llmLog)].outcome = "rejected"

\* the template text of the turn's first n tool outcomes, from what the tools
\* returned or threw
TemplateText(n) ==
    LET text[i \in 0..n] ==
            IF i = 0 THEN <<>>
            ELSE IF "error" \in DOMAIN outcomes[i]
                 THEN Append(text[i - 1], [line |-> "failed", tool |-> executed[i].name,
                                           error |-> outcomes[i].error])
                 ELSE text[i - 1] \o FormatToolResult(executed[i].name, outcomes[i].data)
    IN  text[n]

\* C19: if the model-backed summarization call fails, the response is the
\* template formatter's over the same results and the same toolsUsed: every
\* successful result of the turn has its template text in the response, in
\* order, and none is left out.
C19_SummaryFailureFallsBackToTemplates ==
    SummaryRejected =>
        /\ pc = "done"
        /\ ~Thrown(response)
        /\ response.toolsUsed = toolsUsed
        /\ toolsUsed = [i \in 1..Len(executed) |-> executed[i].name]
        /\ response.content = TemplateText(Len(outcomes))
        /\ \A i \in 1..Len(outcomes) :
              "data" \in DOMAIN outcomes[i] =>
                  /\ FormatToolResult(executed[i].name, outcomes[i].data) # <<>>
                  /\ i = Len(outcomes) => response.data = outcomes[i].data

\* the summarization failed after a scan with two successful results and a
\* failed one
C19_Witness ==
    /\ SummaryRejected /\ pc = "done" /\ Scanned
    /\ Len(outcomes) = 3
    /\ "data" \in DOMAIN outcomes[1]
    /\ "error" \in DOMAIN outcomes[2]
    /\ "data" \in DOMAIN outcomes[3]
    /\ Len(response.content) >= 3

----------------------------------------------------------------------------
(* Properties of the summarization prompt *)

\* the summarization calls of the turn and, of each, the sections of the
\* prompt that embed a successful result
EmbeddedResults ==
    {<<n, i>> \in (1..Len(llmLog)) \X (1..Len(outcomes)) :
        /\ llmLog[n].kind = "summary"
        /\ i <= Len(llmLog[n].resultContext)
        /\ "data" \in DOMAIN outcomes[i]}

\* C20: for every successful tool result, the serialized text embedded for it
\* in the summarization prompt has at most 3000 characters plus the
\* 3-character ellipsis marker: a serialization of at most 3000 characters is
\* embedded unchanged, a longer one as its first 3000 characters followed by
\* the marker.
C20_EmbeddedResultIsTruncated ==
    \A e \in EmbeddedResults :
        LET serialized == JsonStringify(outcomes[e[2]].data)
            section == llmLog[e[1]].resultContext[e[2]]
        IN  /\ section.section = "result"
            /\ Len(section.json) <= 3000 + 3
            /\ Len(serialized) <= 3000 => section.json = serialized
            /\ Len(serialized) > 3000 =>
                  /\ Len(section.json) = 3003
                  /\ SubSeq(section.json, 1, 3000) = SubSeq(serialized, 1, 3000)
                  /\ SubSeq(section.json, 3001, 3003) = "..."

\* one prompt embeds a serialization of exactly 3000 characters unchanged and
\* one of 3001 characters cut to 3000 and marked
C20_Witness ==
    /\ pc = "summarize"
    /\ Len(outcomes) = 2
    /\ "data" \in DOMAIN outcomes[1] /\ "data" \in DOMAIN outcomes[2]
    /\ Len(JsonStringify(outcomes[1].data)) = 3000
    /\ Len(JsonStringify(outcomes[2].data)) = 3001
    /\ llmLog[Len(llmLog)].resultContext[1].json = JsonStringify(outcomes[1].data)
    /\ Len(llmLog[Len(llmLog)].resultContext[2].json) = 3003

----------------------------------------------------------------------------
(* Properties of the job poller *)

Terminal(j) == "state" \in DOMAIN j /\ j.state \notin {"SUBMITTED", "IN_PROGRESS", "PENDING"}
Running(j) == "state" \in DOMAIN j /\ j.state \in {"SUBMITTED", "IN_PROGRESS", "PENDING"}

\* the calls of the request to this operation, as positions of the log
CallsTo(op) == {i \in 1..Len(queryLog) : queryLog[i].op = op}

\* the job createQuery answered with, once it has
Submitted == queryLog # <<>> /\ queryLog[1].outcome = "resolved"

\* C23: if the job returned by submit is already terminal, the poller
\* performs zero sleeps and zero status fetches and returns that job
\* unchanged, without a polling marker.
C23_TerminalJobReturnedAtOnce ==
    (Submitted /\ Terminal(queryLog[1].returned)) =>
        /\ qpc = "sent"
        /\ Len(queryLog) = 1
        /\ reply = [status |-> 200, body |-> queryLog[1].returned]
        /\ "polling" \notin DOMAIN reply.body

\* createQuery answered with a finished job, half a second after the request
C23_Witness ==
    /\ Submitted /\ queryLog[1].returned.state = "SUCCESS"
    /\ now = 500
    /\ reply.body = [id |-> "q1", state |-> "SUCCESS"]

\* C24: for a job that never reaches a terminal state, the poller returns no
\* later than timeout + pollInterval (30000 ms + 2000 ms) after submission.
C24_ReturnsWithinTimeoutPlusInterval ==
    (Submitted /\ qpc = "sent" /\ reply.status = 200 /\ Running(reply.body)) =>
        now - startTime <= 30000 + 2000

\* C25: the poller sleeps and fetches again only while the time elapsed since
\* submission is strictly below timeout: once it has reached timeout with the
\* job still non-terminal, no further sleep is started.
C25_NoSleepOnceTimeoutReached ==
    qpc = "sleeping" => now - startTime < 30000

\* C26: as soon as a status fetch returns a terminal job, the poller returns
\* that job without another sleep or fetch; in every result it returns,
\* polling: true is present if and only if the returned job is non-terminal.
C26_TerminalFetchEndsPolling ==
    /\ \A i \in 1..Len(queryLog) :
          (queryLog[i].outcome = "resolved" /\ Terminal(queryLog[i].returned)) =>
              /\ i = Len(queryLog)
              /\ qpc = "sent"
              /\ reply = [status |-> 200, body |-> queryLog[i].returned]
    /\ (qpc = "sent" /\ reply.status = 200) =>
          /\ ("polling" \in DOMAIN reply.body) <=> Running(reply.body)
          /\ "polling" \in DOMAIN reply.body => reply.body.polling = TRUE

\* the third fetch answered with a failed job, which is what was sent
C26_Witness ==
    /\ qpc = "sent"
    /\ Cardinality(CallsTo("getQueryDetails")) = 3
    /\ queryLog[Len(queryLog)].returned = [id |-> "q1", state |-> "FAILED"]
    /\ reply.body = [id |-> "q1", state |-> "FAILED"]

\* C27: in one run of the poller submit is called exactly once, every status
\* fetch is preceded by one sleep of pollInterval, and the number of status
\* fetches is bounded by a constant of timeout and pollInterval.
C27_BoundedCooperativePolling ==
    queryLog # <<>> =>
        /\ CallsTo("createQuery") = {1}
        /\ \A i \in CallsTo("getQueryDetails") :
              /\ queryLog[i - 1].op = "setTimeout"
              /\ queryLog[i - 1].ms = 2000
              /\ queryLog[i - 1].outcome = "resolved"
        /\ \A i \in CallsTo("setTimeout") : queryLog[i - 1].op # "setTimeout"
        /\ Cardinality(CallsTo("getQueryDetails")) <= (30000 \div 2000) + 1
        /\ Cardinality(CallsTo("setTimeout")) <= (30000 \div 2000) + 1

\* a run that fetched sixteen times, each time after a sleep, and then gave up
C27_Witness ==
    /\ qpc = "sent"
    /\ Cardinality(CallsTo("getQueryDetails")) = 16
    /\ Cardinality(CallsTo("setTimeout")) = 16
    /\ Running(reply.body)

\* C28: a job-submission request with missing SQL text is rejected at once
\* with status 400: submit is never called, nothing is polled or retried.
C28_MissingSqlIsRejected ==
    (qpc # "idle" /\ ("sql" \notin DOMAIN body \/ body.sql = "")) =>
        /\ qpc = "sent"
        /\ reply = [status |-> 400, body |-> [error |-> "SQL query is required"]]
        /\ queryLog = <<>>
        /\ queryResult = Undefined

\* a request whose body has no sql field was answered 400
C28_Witness ==
    /\ qpc = "sent"
    /\ "sql" \notin DOMAIN body
    /\ reply.status = 400

----------------------------------------------------------------------------
(* Properties of the summarizer's text, of the scan's order and of the
   turn's response *)

\* how the i-th tool call of the turn settled
Failed(i) == "error" \in DOMAIN outcomes[i]

\* the response's content is the template formatter's: the summarization call
\* was rejected or gave no text
TemplateSummary ==
    /\ pc = "done" /\ llmLog # <<>>
    /\ llmLog[Len(llmLog)].kind = "summary"
    /\ \/ llmLog[Len(llmLog)].outcome = "rejected"
       \/ llmLog[Len(llmLog)].returned = [content |-> <<>>]

\* the lines of a template text that explain a failure, and the other lines
FailureLines(text) == SelectSeq(text, LAMBDA l : l.line = "failed")
OtherLines(text) == SelectSeq(text, LAMBDA l : l.line # "failed")

\* the template text of the successful ones among the turn's first n outcomes
SuccessText(n) ==
    LET text[i \in 0..n] ==
            IF i = 0 THEN <<>>
            ELSE IF Failed(i) THEN text[i - 1]
            ELSE text[i - 1] \o FormatToolResult(executed[i].name, outcomes[i].data)
    IN  text[n]

\* the explanatory lines of the failed ones among the turn's first n outcomes
FailureText(n) ==
    LET text[i \in 0..n] ==
            IF i = 0 THEN <<>>
            ELSE IF Failed(i)
            THEN Append(text[i - 1], [line |-> "failed", tool |-> executed[i].name,
                                      error |-> outcomes[i].error])
            ELSE text[i - 1]
    IN  text[n]

\* C21: in the summarizer, on the prompt-building and on the template path,
\* each failed result contributes exactly one explanatory line naming the tool
\* and its error, and each successful result of the same list is still
\* summarized, wherever the failed results are in the list.
C21_FailedResultsAreOneLineEach ==
    /\ \A n \in 1..Len(llmLog) :
          llmLog[n].kind = "summary" =>
              /\ Len(llmLog[n].resultContext) = Len(outcomes)
              /\ \A i \in 1..Len(outcomes) :
                    IF Failed(i)
                    THEN llmLog[n].resultContext[i] =
                            [section |-> "failed", tool |-> executed[i].name,
                             error |-> outcomes[i].error]
                    ELSE /\ llmLog[n].resultContext[i].section = "result"
                         /\ llmLog[n].resultContext[i].tool = executed[i].name
                         /\ llmLog[n].resultContext[i].json =
                                Truncated(JsonStringify(outcomes[i].data))
    /\ TemplateSummary =>
          /\ FailureLines(response.content) = FailureText(Len(outcomes))
          /\ OtherLines(response.content) = SuccessText(Len(outcomes))

\* template path after a scan whose first and last call failed and whose
\* second call succeeded
C21_Witness ==
    /\ TemplateSummary /\ Scanned
    /\ Len(outcomes) = 3
    /\ Failed(1) /\ ~Failed(2) /\ Failed(3)
    /\ Len(FailureLines(response.content)) = 2
    /\ Len(llmLog[Len(llmLog)].resultContext) = 3

\* C29: within one scan the tools are executed strictly one at a time in the
\* order the model returned the calls: call i has settled, with data or
\* error, before call i+1 starts, and the results list has the order of the
\* calls.
C29_ScanIsSequentialAndOrdered ==
    Scanned =>
        /\ Len(executed) <= Len(toolCalls)
        /\ executed = SubSeq(toolCalls, 1, Len(executed))
        /\ Len(executed) \in {Len(outcomes), Len(outcomes) + 1}
        /\ Len(executed) = Len(outcomes) + 1 <=> pc = "scan"
        /\ Len(results) = Len(outcomes)
        /\ \A i \in 1..Len(results) :
              /\ results[i].tool = toolCalls[i].name
              /\ ~Failed(i) => results[i].args = toolCalls[i].arguments

\* the second of three calls is running, the first has settled
C29_Witness ==
    /\ Scanned /\ pc = "scan"
    /\ Len(toolCalls) = 3
    /\ Len(executed) = 2 /\ Len(outcomes) = 1

\* the three shapes of a turn's response
ResponseShapes ==
    {{"content", "toolsUsed"}, {"content", "toolsUsed", "data"},
     {"requiresApproval", "toolName", "toolArguments", "actionDescription"}}

\* C30: every turn whose collaborators return or throw ends with one response
\* of one of the three shapes: an answer {content, toolsUsed, data?}, a
\* pending approval {requiresApproval: true, toolName, toolArguments,
\* actionDescription} or an error-shaped {content, toolsUsed}.
C30_TurnEndsWithShapedResponse ==
    pc = "done" => DOMAIN response \in ResponseShapes

----------------------------------------------------------------------------
(* Properties of the template formatter *)

\* the tools formatToolResult has a template of their own for
DedicatedTemplates ==
    {"get_failed_batches", "get_segment_stats", "analyze_batch_errors",
     "get_identity_graph"}

\* C22: for a tool name with no dedicated template, the template formatter
\* outputs a "key: value" listing of at most 5 top-level scalar fields of the
\* data, and outputs the bare success line exactly when the data has no
\* scalar top-level field (a heading with nothing listed under it is taken
\* for a bare success line too).
C22_GenericTemplateListsScalars ==
    (RulesReached /\ pc = "done" /\ outcomes # <<>> /\ ~Failed(1)
        /\ executed[1].name \notin DedicatedTemplates) =>
        LET data == outcomes[1].data
            scalars == {k \in DOMAIN data : k \notin {"members"}}
            listed == {i \in 1..Len(response.content) : response.content[i].line = "field"}
            five == IF Cardinality(scalars) <= 5 THEN Cardinality(scalars) ELSE 5
        IN  /\ scalars = {} <=>
                  response.content \in
                      {<<[line |-> "completed_successfully", tool |-> executed[1].name]>>,
                       <<[line |-> "completed", tool |-> executed[1].name]>>}
            /\ Cardinality(listed) = five
            /\ \A i \in listed :
                  /\ response.content[i].key \in scalars
                  /\ response.content[i].value = data[response.content[i].key]

----------------------------------------------------------------------------
(* Properties of the approved-action path *)

\* C31: a turn with approvedAction present goes straight to executing the
\* approved tool: in every step of such a turn no intent call is made or
\* pending, no rule matching runs, no model context is built from message and
\* history (the only chatCompletion call is the summary of the one result,
\* asked for under the tool's name), the approved tool is the only tool
\* executed, and the orchestrator's stored history stays as it was.
C31_ApprovedTurnBypassesIntentAndHistory ==
    [][approvedAction' # NoAction =>
          /\ chatHistory' = chatHistory
          /\ pc' \in {"approved", "summarize", "done"}
          /\ messages' = <<>>
          /\ toolCalls' = <<>>
          /\ executed' = <<[name |-> approvedAction'.toolName,
                            arguments |-> approvedAction'.toolArguments]>>
          /\ \A i \in 1..Len(llmLog') :
                /\ llmLog'[i].kind = "summary"
                /\ llmLog'[i].asked = [execute |-> approvedAction'.toolName]]_vars

\* an approved turn has ended whose message matches a rule and whose history
\* is not the one the orchestrator holds
C31_Witness ==
    /\ approvedAction # NoAction
    /\ pc = "done"
    /\ outcomes # <<>>
    /\ FirstMatch(message) # 0
    /\ history # <<>>
    /\ chatHistory # SliceLast(history, HistLimit)

----------------------------------------------------------------------------
(* Properties of the turn's execution paths *)

\* C33: within one turn the rule-based fallback and the tool scan exclude
\* each other: once the scan has started (the intent call returned calls)
\* the turn never reaches the rule matcher, whatever fails afterwards, and
\* every tool executed in the turn is a call of the scan in its order; a
\* turn in the rule matcher has scanned nothing and executes the one tool of
\* the rule.
C33_RulesAndScanExclusive ==
    /\ (approvedAction = NoAction /\ toolCalls # <<>>) =>
          /\ pc \in {"scan", "summarize", "done"}
          /\ IntentSettled("resolved")
          /\ Len(executed) <= Len(toolCalls)
          /\ executed = SubSeq(toolCalls, 1, Len(executed))
    /\ pc = "rules" =>
          /\ toolCalls = <<>>
          /\ Len(executed) = 1

\* a turn whose message matches a rule has ended after a scan in which a
\* tool failed and the summarization call failed too
C33_Witness ==
    /\ Scanned /\ pc = "done"
    /\ FirstMatch(message) # 0
    /\ \E i \in 1..Len(outcomes) : Failed(i)
    /\ llmLog[Len(llmLog)].kind = "summary"
    /\ llmLog[Len(llmLog)].outcome = "rejected"

\* the turn ended with an answer: not a pending approval, not a rejection
NormalAnswer == pc = "done" /\ ~IsPending(response) /\ ~Thrown(response)

\* C34: whenever a turn has executed at least one tool and returns a normal
\* answer, the content of the response is non-empty: an empty model-backed
\* summary is replaced by the template formatter's content, and the template
\* formatter writes at least one line for every result, success or error.
C34_AnswerAfterToolHasContent ==
    (NormalAnswer /\ outcomes # <<>>) =>
        /\ response.content # <<>>
        /\ TemplateSummary => Len(response.content) >= Len(outcomes)

\* the summarization call of a scan with a failed and a successful tool
\* returned no text, and the turn answered
C34_Witness ==
    /\ NormalAnswer /\ Scanned
    /\ Len(outcomes) >= 2
    /\ \E i, j \in 1..Len(outcomes) : Failed(i) /\ ~Failed(j)
    /\ llmLog[Len(llmLog)].kind = "summary"
    /\ llmLog[Len(llmLog)].returned = [content |-> <<>>]

----------------------------------------------------------------------------
(* Properties of the responses of POST /queries *)

\* a call of the request has not settled yet
Awaited == \E i \in 1..Len(queryLog) : queryLog[i].outcome = "awaited"

\* the response is the job annotated polling: true
TimedOutResponse ==
    /\ reply # NoResponse
    /\ reply.status = 200
    /\ "polling" \in DOMAIN reply.body

\* C35: the query-execution endpoint sends exactly one response per request
\* on every path: while the handler is suspended nothing has been sent and
\* exactly one call is awaited; once it has answered, exactly one response
\* has been written (the 400 validation response, the 200 job annotated
\* polling: true, the 200 terminal job or the 500 error of a call that
\* threw) and no call is awaited any more, so that no sleep, fetch or
\* response follows the timed-out response.
C35_ExactlyOneResponsePerRequest ==
    /\ sent <= 1
    /\ qpc \in {"creating", "sleeping", "fetching"} =>
          /\ sent = 0 /\ reply = NoResponse
          /\ queryLog # <<>>
          /\ queryLog[Len(queryLog)].outcome = "awaited"
          /\ \A i \in 1..(Len(queryLog) - 1) : queryLog[i].outcome = "resolved"
    /\ qpc = "sent" =>
          /\ sent = 1
          /\ ~Awaited
          /\ \/ reply.status = 400 /\ NoSql(body) /\ queryLog = <<>>
             \/ TimedOutResponse /\ Running(reply.body)
                  /\ queryLog[Len(queryLog)].outcome = "resolved"
                  /\ queryLog[Len(queryLog)].op \in {"createQuery", "getQueryDetails"}
             \/ reply.status = 200 /\ Terminal(reply.body)
                  /\ queryLog[Len(queryLog)].outcome = "resolved"
             \/ reply.status = 500
                  /\ queryLog[Len(queryLog)].outcome = "rejected"
                  /\ queryLog[Len(queryLog)].op \in {"createQuery", "getQueryDetails"}

\* the timed-out response has been sent after at least one status fetch
C35_Witness ==
    /\ qpc = "sent" /\ sent = 1
    /\ TimedOutResponse
    /\ CallsTo("getQueryDetails") # {}
    /\ ~Awaited

----------------------------------------------------------------------------
(* Properties of interleaved turns *)

\* the context of a turn with history h and message m: the system prompt,
\* the most recent entries of h, and m
OwnContext(h, m) ==
    <<[role |-> "system", content |-> "SYSTEM_PROMPT"]>>
    \o RecentContext(h)
    \o <<[role |-> "user", content |-> m]>>

\* the history entries of a context, by their content
HistoryContents(ctx) == {ctx[i].content : i \in 2..(Len(ctx) - 1)}
ContentsOf(h) == {h[i].content : i \in 1..Len(h)}

\* C32: when turns of different callers interleave at their suspension
\* points, the context built for each turn, and handed to its intent call,
\* is that turn's own truncated history and message and holds no entry of
\* the other turn's history, whichever turn assigned the shared chatHistory
\* last.
C32_ContextIsTheTurnsOwn ==
    /\ (approvedAction = NoAction /\ pc # "idle") =>
          /\ messages = OwnContext(history, message)
          /\ HistoryContents(messages) \cap ContentsOf(history2) = {}
          /\ \A i \in 1..Len(llmLog) :
                llmLog[i].kind = "intent" => llmLog[i].messages = messages
    /\ pc2 # "idle" =>
          /\ messages2 = OwnContext(history2, message2)
          /\ HistoryContents(messages2) \cap ContentsOf(history) = {}

\* both turns are suspended, each began while the other was suspended, and
\* the shared chatHistory is the second caller's
C32_Witness ==
    /\ pc = "intent" /\ pc2 = "running"
    /\ history # <<>> /\ history2 # <<>>
    /\ chatHistory = SliceLast(history2, HistLimit)
    /\ chatHistory # SliceLast(history, HistLimit)
    /\ llmLog[1].messages = OwnContext(history, message)

----------------------------------------------------------------------------
(* Properties of the chat panel *)

\* the requests of the panel that carry an approvedAction, as positions of
\* sentLog
Approvals == {i \in 1..Len(sentLog) : sentLog[i].kind = "approve"}

\* C36: each pending action is submitted for execution at most once: for
\* one pending-approval response the panel sends at most one request
\* carrying it as approvedAction, whatever the user clicks while the first
\* approval request is in flight.
C36_PendingActionSubmittedOnce ==
    \A i, j \in Approvals :
        sentLog[i].approvedAction = sentLog[j].approvedAction => i = j

\* C37: while a pending action awaits the user's Approve or Cancel the panel
\* sends no new chat message: every chat request was sent while the panel
\* held no pending action.
C37_NoChatWhilePending ==
    \A i \in 1..Len(sentLog) :
        sentLog[i].kind = "chat" => sentLog[i].whilePending = Null

====
